---------------------------- MODULE Spec2Model ----------------------------
(***************************************************************************)
(* Verification model of the merge-evaluation scripts:                     *)
(*   src/python/latex_output.py        (oracle reconciliation, buckets,    *)
(*                                      fingerprint consistency)           *)
(*   src/python/diff3_analysis.py      (single-tool diff3 pipeline)        *)
(*   src/python/diff3_pair_analysis.py (two-tool diff3 pipeline)           *)
(***************************************************************************)
EXTENDS Integers, Sequences, FiniteSets, TLC

VARIABLES
    \* --- merge_two_states applied to drawn inputs (SpecReconcile) ---
    merge_result1, merge_result2, merge_result3,
    out12, out21, outLeft, outRight,
    \* --- latex_output.main (Spec) ---
    pc,            \* position in main
    result_df,     \* the result table: a sequence of rows, each a function column -> state name
    fingerprint,   \* the <tool>_merge_fingerprint columns of result_df, row by row
    plot_category, \* index into PLOT_CATEGORIES of the category being processed
    correct, incorrect, unhandled,  \* the bucket counts of the current category, per column
    written,       \* output files written so far
    error,         \* the exception that ended main, or NoError
    \* --- diff3_analysis / diff3_pair_analysis (SpecExtract, SpecDiff3) ---
    program,       \* which script runs: "diff3_analysis" or "diff3_pair_analysis"
    dpc,           \* position in the script
    tool_args,     \* the merge tool arguments of the script, in order
    stdout,        \* result.stdout of the merge tool: a sequence of lines
    conflict_file_matches,  \* the list re.findall returned
    next_match,    \* index of the next element of the loop over conflict_file_matches
    files,         \* the workspace files read so far: per conflicting file, its content in each workspace
    ops,           \* the external commands run and the messages printed so far, in order
    records,       \* what each comparison read, ran and stored, in order
    artifacts,     \* the files written and not removed: a set of [path, text]
    derror,        \* the exception that ended the script, or NoError
    \* --- cost plot of latex_output.main (Spec, SpecScore) ---
    cost_factors,  \* the cost factors np.linspace gave, as fractions [num, den]
    results        \* per counted column, the scores at these cost factors, as fractions

varsR == <<merge_result1, merge_result2, merge_result3, out12, out21, outLeft, outRight>>

varsM == <<pc, result_df, fingerprint, plot_category, correct, incorrect, unhandled, written, error>>

varsD == <<program, dpc, tool_args, stdout, conflict_file_matches, next_match, files, ops,
           records, artifacts, derror>>

varsP == <<cost_factors, results>>

vars == <<varsR, varsM, varsD, varsP>>

(***************************************************************************)
(* Outcome state names.  TEST_STATE and MERGE_STATE are enumerations whose *)
(* member names are the strings stored in the result table; these are the  *)
(* members latex_output.py refers to.  Git_checkout_failed is a member of   *)
(* both enumerations and is one name.                                      *)
(***************************************************************************)
Tests_passed == "Tests_passed"
Tests_failed == "Tests_failed"
Tests_timedout == "Tests_timedout"
Git_checkout_failed == "Git_checkout_failed"
Not_tested == "Not_tested"
Merge_failed == "Merge_failed"
Merge_timedout == "Merge_timedout"

MERGE_CORRECT_NAMES == <<Tests_passed>>

MERGE_INCORRECT_NAMES == <<Tests_failed, Tests_timedout>>

MERGE_UNHANDLED_NAMES == <<Merge_failed, Merge_timedout>>

UNDESIRABLE_STATES == <<Git_checkout_failed, Not_tested, Git_checkout_failed, Merge_timedout>>

Range(s) == {s[i] : i \in DOMAIN s}

\* Every state name the script refers to.
STATE_NAMES ==
    Range(MERGE_CORRECT_NAMES) \cup Range(MERGE_INCORRECT_NAMES)
        \cup Range(MERGE_UNHANDLED_NAMES) \cup Range(UNDESIRABLE_STATES)

\* raise Exception("Invalid case")
InvalidCase == "Exception: Invalid case"

\* Marker of a result variable that has not been assigned yet.
NotRun == "not run"

\* Variant: the timeout rule written with "or" instead of "and".
merge_two_states_TimeoutOr(r1, r2) ==
    IF Tests_passed \in {r1, r2} THEN Tests_passed
    ELSE IF Merge_failed \in {r1, r2} THEN Merge_failed
    ELSE IF Tests_failed \in {r1, r2} THEN Tests_failed
    ELSE IF r1 = Tests_timedout \/ r2 = Tests_timedout THEN Tests_timedout
    ELSE InvalidCase

\* Variant: the Merge_failed rule looks at the first argument only.
merge_two_states_FirstOnly(r1, r2) ==
    IF Tests_passed \in {r1, r2} THEN Tests_passed
    ELSE IF Merge_failed = r1 THEN Merge_failed
    ELSE IF Tests_failed \in {r1, r2} THEN Tests_failed
    ELSE IF r1 = Tests_timedout /\ r2 = Tests_timedout THEN Tests_timedout
    ELSE InvalidCase

\* Variant: the Tests_failed rule is missing.
merge_two_states_NoTestsFailedRule(r1, r2) ==
    IF Tests_passed \in {r1, r2} THEN Tests_passed
    ELSE IF Merge_failed \in {r1, r2} THEN Merge_failed
    ELSE IF r1 = Tests_timedout /\ r2 = Tests_timedout THEN Tests_timedout
    ELSE InvalidCase

\* Variant: the Merge_failed rule is tested before the Tests_passed rule.
merge_two_states_MergeFailedFirst(r1, r2) ==
    IF Merge_failed \in {r1, r2} THEN Merge_failed
    ELSE IF Tests_passed \in {r1, r2} THEN Tests_passed
    ELSE IF Tests_failed \in {r1, r2} THEN Tests_failed
    ELSE IF r1 = Tests_timedout /\ r2 = Tests_timedout THEN Tests_timedout
    ELSE InvalidCase

(***************************************************************************)
(* merge_two_states (nested in main): the precedence rule, or the          *)
(* exception when no rule applies.                                         *)
(***************************************************************************)
merge_two_states(r1, r2) ==
    IF Tests_passed \in {r1, r2} THEN Tests_passed
    ELSE IF Merge_failed \in {r1, r2} THEN Merge_failed
    ELSE IF Tests_failed \in {r1, r2} THEN Tests_failed
    ELSE IF r1 = Tests_timedout /\ r2 = Tests_timedout THEN Tests_timedout
    ELSE InvalidCase

\* A call whose first argument is itself the outcome of a call: an exception
\* raised by the inner call propagates and the outer call never runs.
CallAfter(inner, r2) ==
    IF inner = InvalidCase THEN InvalidCase ELSE merge_two_states(inner, r2)

\* The same, with the inner call in second position.
CallBefore(r1, inner) ==
    IF inner = InvalidCase THEN InvalidCase ELSE merge_two_states(r1, inner)

\* Values of the variables of main while another specification runs.
MainIdle ==
    /\ pc = "idle"
    /\ result_df = <<>>
    /\ fingerprint = <<>>
    /\ plot_category = 0
    /\ correct = <<>>
    /\ incorrect = <<>>
    /\ unhandled = <<>>
    /\ written = {}
    /\ error = "idle"

\* Values of the variables of the cost plot while another specification runs.
PlotIdle ==
    /\ cost_factors = <<>>
    /\ results = <<>>

\* Values of the variables of the diff3 scripts while another specification
\* runs.
Diff3Idle ==
    /\ program = "idle"
    /\ dpc = "idle"
    /\ tool_args = <<>>
    /\ stdout = <<>>
    /\ conflict_file_matches = <<>>
    /\ next_match = 0
    /\ files = {}
    /\ ops = <<>>
    /\ records = <<>>
    /\ artifacts = {}
    /\ derror = "idle"

\* Values of the variables of the merge_two_states calls while another
\* specification runs.
ReconcileIdle ==
    /\ merge_result1 = NotRun
    /\ merge_result2 = NotRun
    /\ merge_result3 = NotRun
    /\ out12 = NotRun
    /\ out21 = NotRun
    /\ outLeft = NotRun
    /\ outRight = NotRun

(***************************************************************************)
(* SpecReconcile: merge_two_states on every pair and triple of state names *)
(***************************************************************************)
InitReconcile ==
    /\ merge_result1 \in STATE_NAMES
    /\ merge_result2 \in STATE_NAMES
    /\ merge_result3 \in STATE_NAMES
    /\ out12 = NotRun
    /\ out21 = NotRun
    /\ outLeft = NotRun
    /\ outRight = NotRun
    /\ MainIdle
    /\ Diff3Idle
    /\ PlotIdle

Call12 ==
    /\ out12 = NotRun
    /\ out12' = merge_two_states(merge_result1, merge_result2)
    /\ UNCHANGED <<merge_result1, merge_result2, merge_result3, out21, outLeft, outRight>>
    /\ UNCHANGED <<varsM, varsD, varsP>>

Call21 ==
    /\ out21 = NotRun
    /\ out21' = merge_two_states(merge_result2, merge_result1)
    /\ UNCHANGED <<merge_result1, merge_result2, merge_result3, out12, outLeft, outRight>>
    /\ UNCHANGED <<varsM, varsD, varsP>>

CallLeftNested ==
    /\ outLeft = NotRun
    /\ outLeft' = CallAfter(merge_two_states(merge_result1, merge_result2), merge_result3)
    /\ UNCHANGED <<merge_result1, merge_result2, merge_result3, out12, out21, outRight>>
    /\ UNCHANGED <<varsM, varsD, varsP>>

CallRightNested ==
    /\ outRight = NotRun
    /\ outRight' = CallBefore(merge_result1, merge_two_states(merge_result2, merge_result3))
    /\ UNCHANGED <<merge_result1, merge_result2, merge_result3, out12, out21, outLeft>>
    /\ UNCHANGED <<varsM, varsD, varsP>>

NextReconcile == Call12 \/ Call21 \/ CallLeftNested \/ CallRightNested

SpecReconcile == InitReconcile /\ [][NextReconcile]_vars

(***************************************************************************)
(* Claims about merge_two_states, checked under SpecReconcile              *)
(***************************************************************************)

\* C1: merge_two_states(a, b) is Tests_passed if either input is Tests_passed;
\* otherwise Merge_failed if either is Merge_failed; otherwise Tests_failed if
\* either is Tests_failed; otherwise Tests_timedout if both are Tests_timedout;
\* every other pair raises the invalid-state error.  Tests_passed wins in
\* either argument position.
C1_PrecedenceTable ==
    /\ out12 # NotRun =>
        LET either(s) == merge_result1 = s \/ merge_result2 = s
        IN  /\ either(Tests_passed) => out12 = Tests_passed
            /\ (~either(Tests_passed) /\ either(Merge_failed)) => out12 = Merge_failed
            /\ (~either(Tests_passed) /\ ~either(Merge_failed) /\ either(Tests_failed))
                  => out12 = Tests_failed
            /\ ( /\ ~either(Tests_passed) /\ ~either(Merge_failed) /\ ~either(Tests_failed)
                 /\ merge_result1 = Tests_timedout /\ merge_result2 = Tests_timedout )
                  => out12 = Tests_timedout
            /\ ( /\ ~either(Tests_passed) /\ ~either(Merge_failed) /\ ~either(Tests_failed)
                 /\ ~(merge_result1 = Tests_timedout /\ merge_result2 = Tests_timedout) )
                  => out12 = InvalidCase
    /\ (out21 # NotRun /\ Tests_passed \in {merge_result1, merge_result2})
          => out21 = Tests_passed

\* C1 witness: a pair outside the table (a timeout with an untested merge)
\* has been reconciled and raised the invalid-state error.
C1_Witness ==
    /\ merge_result1 = Tests_timedout
    /\ merge_result2 = Not_tested
    /\ out12 = InvalidCase

\* C2: merge_two_states(a, b) and merge_two_states(b, a) give the same
\* outcome: the same state, or the invalid-state error in both orders.
C2_Commutative ==
    (out12 # NotRun /\ out21 # NotRun) => out12 = out21

\* C2 witness: two different states were reconciled in both orders.
C2_Witness ==
    /\ merge_result1 = Tests_failed
    /\ merge_result2 = Merge_failed
    /\ out12 = Merge_failed
    /\ out21 = Merge_failed

\* The states a row can hold once rows with an undesirable state are removed.
FilteredStates == STATE_NAMES \ Range(UNDESIRABLE_STATES)

\* C3 (as claimed): for all triples of outcome states, both groupings of the
\* two calls give the same outcome (the same state, or both fail).
C3_AssociativeAllStates ==
    (outLeft # NotRun /\ outRight # NotRun) => outLeft = outRight

\* C3 (amended): for all triples of states that survive the undesirable-state
\* filter, both groupings return the same state and neither fails.
C3_AssociativeOnFilteredStates ==
    ( /\ outLeft # NotRun /\ outRight # NotRun
      /\ {merge_result1, merge_result2, merge_result3} \subseteq FilteredStates )
        => (outLeft = outRight /\ outLeft # InvalidCase)

\* C3 witness: three different filtered states were folded in both groupings.
C3_Witness ==
    /\ merge_result1 = Tests_timedout
    /\ merge_result2 = Tests_failed
    /\ merge_result3 = Merge_failed
    /\ outLeft = Merge_failed
    /\ outRight = Merge_failed

(***************************************************************************)
(* latex_output.py: tools, plot categories, result table                   *)
(***************************************************************************)

\* Number of merge tools of the MERGE_TOOL enumeration kept in the table.
NumTools == 3

\* Largest number of merge scenarios in the loaded table.
MaxRows == 2

\* Number of distinct merge fingerprints besides the missing one.
MaxFingerprint == 1

\* The tool names that PLOTS lists, in the order the model adds them.
ToolOrder ==
    << "gitmerge_ort", "spork", "gitmerge_resolve", "gitmerge_ort_adjacent",
       "gitmerge_ort_imports", "gitmerge_ort_imports_ignorespace",
       "gitmerge_ort_ignorespace", "git_hires_merge", "intellimerge",
       "gitmerge_recursive_histogram", "gitmerge_recursive_ignorespace",
       "gitmerge_recursive_minimal", "gitmerge_recursive_myers",
       "gitmerge_recursive_patience" >>

\* The first n tools.
FirstTools(n) == SubSeq(ToolOrder, 1, n)

\* The members of the MERGE_TOOL enumeration.
MERGE_TOOL == FirstTools(NumTools)

PLOTS_git ==
    << "gitmerge_ort", "gitmerge_ort_ignorespace", "gitmerge_recursive_histogram",
       "gitmerge_recursive_ignorespace", "gitmerge_recursive_minimal",
       "gitmerge_recursive_myers", "gitmerge_recursive_patience", "gitmerge_resolve" >>

PLOTS_tools ==
    << "gitmerge_ort", "gitmerge_ort_ignorespace", "gitmerge_ort_adjacent",
       "gitmerge_ort_imports", "gitmerge_ort_imports_ignorespace",
       "git_hires_merge", "spork", "intellimerge" >>

\* The keys of PLOTS in insertion order.
PLOT_CATEGORIES == <<"all", "git", "tools">>

\* A list of PLOTS cut down to the tools of the enumeration.
Restrict(list, tools) == SelectSeq(list, LAMBDA t : t \in Range(tools))

\* PLOTS[category] for the enumeration `tools`.
PLOTS(category, tools) ==
    CASE category = "all" -> tools
      [] category = "git" -> Restrict(PLOTS_git, tools)
      [] category = "tools" -> Restrict(PLOTS_tools, tools)

OracleTool == "Oracle tool"

\* A missing fingerprint cell as pandas reads it; present fingerprints are
\* numbered from 1.
NaN == 0

\* The values of a fingerprint cell.
Fingerprints(k) == {NaN} \cup (1 .. k)

\* The tables of n rows whose cells are drawn from `cells`.
Tables(n, tools, cells) == [1 .. n -> [Range(tools) -> cells]]

NoError == "no error"
MissingMergeList == "Exception: does not have a list of merges"
FingerprintAssertion == "AssertionError: Inconsistency found"
BucketAssertion == "AssertionError: bucket counts"
ZeroDivision == "ZeroDivisionError"

(***************************************************************************)
(* check_fingerprint_consistency                                           *)
(***************************************************************************)

\* pandas ==  on two fingerprint cells: a missing value equals nothing.
SameFingerprint(x, y) == x # NaN /\ y # NaN /\ x = y

\* Variant: gitmerge_ort_adjacent is not skipped.
SkippedPair_NoAdjacent(merge_tool1, merge_tool2) ==
    \/ merge_tool1 = "gitmerge_resolve" \/ merge_tool2 = "gitmerge_resolve"
    \/ merge_tool1 = "gitmerge_ort_imports" \/ merge_tool2 = "gitmerge_ort_imports"
    \/ merge_tool1 = "gitmerge_ort_imports_ignorespace"
    \/ merge_tool2 = "gitmerge_ort_imports_ignorespace"

\* The four `continue` tests at the head of the inner loop.
SkippedPair(merge_tool1, merge_tool2) ==
    \/ merge_tool1 = "gitmerge_resolve" \/ merge_tool2 = "gitmerge_resolve"
    \/ merge_tool1 = "gitmerge_ort_adjacent" \/ merge_tool2 = "gitmerge_ort_adjacent"
    \/ merge_tool1 = "gitmerge_ort_imports" \/ merge_tool2 = "gitmerge_ort_imports"
    \/ merge_tool1 = "gitmerge_ort_imports_ignorespace"
    \/ merge_tool2 = "gitmerge_ort_imports_ignorespace"

\* inconsistent_mask.sum() for one pair of tools.
InconsistentCount(df, fp, merge_tool1, merge_tool2) ==
    Cardinality({ i \in DOMAIN df :
        /\ SameFingerprint(fp[i][merge_tool1], fp[i][merge_tool2])
        /\ ~(df[i][merge_tool1] = df[i][merge_tool2]) })

\* The function: the assertion fails at the first pair of the double loop that
\* is not skipped, is made of two different tools and has an inconsistent row.
check_fingerprint_consistency(df, fp, merge_tools) ==
    IF \E a \in DOMAIN merge_tools, b \in DOMAIN merge_tools :
          /\ ~SkippedPair(merge_tools[a], merge_tools[b])
          /\ merge_tools[a] # merge_tools[b]
          /\ InconsistentCount(df, fp, merge_tools[a], merge_tools[b]) > 0
    THEN FingerprintAssertion
    ELSE NoError

(***************************************************************************)
(* main: loading, filtering, oracle column                                 *)
(***************************************************************************)

\* Variant: Not_tested is missing from the filter.
IsUndesirable_NoNotTested(state) ==
    state \in {Git_checkout_failed, Merge_timedout}

\* isin(UNDESIRABLE_STATES)
IsUndesirable(state) == state \in Range(UNDESIRABLE_STATES)

\* The filter loop after k tools: rows with an undesirable state in one of the
\* first k tool columns are dropped.
RECURSIVE RemoveUndesired(_, _, _)
RemoveUndesired(df, tools, k) ==
    IF k = 0 THEN df
    ELSE SelectSeq(RemoveUndesired(df, tools, k - 1),
                   LAMBDA row : ~IsUndesirable(row[tools[k]]))

\* Variant: only the first tool enters the fold.
OracleAfter_FirstToolOnly(row, tools, k) ==
    IF k = 0 THEN Tests_failed ELSE CallAfter(Tests_failed, row[tools[1]])

\* Variant: the column starts as the state of the first tool.
RECURSIVE OracleAfter_Unseeded(_, _, _)
OracleAfter_Unseeded(row, tools, k) ==
    IF k = 0 THEN Tests_failed
    ELSE IF k = 1 THEN row[tools[1]]
    ELSE CallAfter(OracleAfter_Unseeded(row, tools, k - 1), row[tools[k]])

\* The value of row["Oracle tool"] after the fold loop has run over the first k
\* tools: the column starts as Tests_failed.
RECURSIVE OracleAfter(_, _, _)
OracleAfter(row, tools, k) ==
    IF k = 0 THEN Tests_failed
    ELSE CallAfter(OracleAfter(row, tools, k - 1), row[tools[k]])

\* The row with its "Oracle tool" cell.
WithOracle(row, tools) ==
    [c \in DOMAIN row \cup {OracleTool} |->
        IF c = OracleTool THEN OracleAfter(row, tools, Len(tools)) ELSE row[c]]

\* Number of cells of a column that lie in a list of names.
CountIn(df, column, names) ==
    Cardinality({ i \in DOMAIN df : df[i][column] \in Range(names) })

\* The columns counted for a category: its tools, then the oracle.
CountedColumns(category, tools) == PLOTS(category, tools) \o <<OracleTool>>

\* incorrect[k] + correct[k] + unhandled[k] of the counting loop.
BucketSum(df, column) ==
    CountIn(df, column, MERGE_INCORRECT_NAMES) + CountIn(df, column, MERGE_CORRECT_NAMES)
        + CountIn(df, column, MERGE_UNHANDLED_NAMES)

\* One of the two assertions of the counting loop fails at column k.
BucketAssertFails(df, columns, k) ==
    \/ BucketSum(df, columns[k]) # Len(df)
    \/ BucketSum(df, columns[1]) # BucketSum(df, columns[k])

\* The columns the counting loop gets through: all of them, or those up to the
\* first failing assertion.
CountedUpTo(df, columns) ==
    IF \E k \in DOMAIN columns : BucketAssertFails(df, columns, k)
    THEN CHOOSE k \in DOMAIN columns :
            /\ BucketAssertFails(df, columns, k)
            /\ \A j \in 1 .. (k - 1) : ~BucketAssertFails(df, columns, j)
    ELSE Len(columns)

InitMain ==
    /\ pc = "load"
    /\ result_df = <<>>
    /\ fingerprint = <<>>
    /\ plot_category = 0
    /\ correct = <<>>
    /\ incorrect = <<>>
    /\ unhandled = <<>>
    /\ written = {}
    /\ error = NoError
    /\ ReconcileIdle
    /\ Diff3Idle
    /\ cost_factors = <<>>
    /\ results = <<>>

\* Variant: when a merge list is missing, the rows read so far are written to
\* result.csv before the run ends.
LoadResults_WritesRowsRead ==
    /\ pc = "load"
    /\ \/ /\ error' = MissingMergeList
          /\ pc' = "aborted"
          /\ written' = written \cup {<<"result.csv">>}
          /\ UNCHANGED result_df
       \/ /\ \E n \in 0 .. MaxRows : result_df' \in Tables(n, MERGE_TOOL, STATE_NAMES)
          /\ pc' = "filter"
          /\ UNCHANGED <<error, written>>
    /\ UNCHANGED <<fingerprint, plot_category, correct, incorrect, unhandled>>
    /\ UNCHANGED <<varsR, varsD, varsP>>

\* Lines 352-403: the merge lists of the repositories are read and combined.
\* The rows are those left by the "parents pass" selection and the sampling.
\* A repository without a merge list ends the run.
LoadResults ==
    /\ pc = "load"
    /\ \/ /\ error' = MissingMergeList
          /\ pc' = "aborted"
          /\ UNCHANGED result_df
       \/ /\ \E n \in 0 .. MaxRows : result_df' \in Tables(n, MERGE_TOOL, STATE_NAMES)
          /\ pc' = "filter"
          /\ UNCHANGED error
    /\ UNCHANGED <<fingerprint, plot_category, correct, incorrect, unhandled, written>>
    /\ UNCHANGED <<varsR, varsD, varsP>>

\* Lines 405-407.
RemoveUndesiredStates ==
    /\ pc = "filter"
    /\ result_df' = RemoveUndesired(result_df, MERGE_TOOL, Len(MERGE_TOOL))
    /\ pc' = "oracle"
    /\ UNCHANGED <<fingerprint, plot_category, correct, incorrect, unhandled, written, error>>
    /\ UNCHANGED <<varsR, varsD, varsP>>

\* Lines 426-433: the "Oracle tool" column.  An exception of merge_two_states
\* ends the run.
AddOracleColumn ==
    /\ pc = "oracle"
    /\ LET df == [i \in DOMAIN result_df |-> WithOracle(result_df[i], MERGE_TOOL)]
       IN  IF \E i \in DOMAIN df : df[i][OracleTool] = InvalidCase
           THEN /\ error' = InvalidCase
                /\ pc' = "aborted"
                /\ UNCHANGED result_df
           ELSE /\ result_df' = df
                /\ pc' = "csv"
                /\ UNCHANGED error
    /\ UNCHANGED <<fingerprint, plot_category, correct, incorrect, unhandled, written>>
    /\ UNCHANGED <<varsR, varsD, varsP>>

\* Line 435.
WriteResultCsv ==
    /\ pc = "csv"
    /\ written' = written \cup {<<"result.csv">>}
    /\ plot_category' = 1
    /\ pc' = "check"
    /\ UNCHANGED <<result_df, fingerprint, correct, incorrect, unhandled, error>>
    /\ UNCHANGED <<varsR, varsD, varsP>>

\* Lines 440-446: the call of check_fingerprint_consistency for the current
\* category.  The fingerprint columns are loaded with the table; nothing reads
\* or changes them before this call, and their cells are fixed when the first
\* call reads them.
CheckFingerprints ==
    /\ pc = "check"
    /\ IF plot_category = 1
       THEN fingerprint' \in Tables(Len(result_df), MERGE_TOOL, Fingerprints(MaxFingerprint))
       ELSE UNCHANGED fingerprint
    /\ LET merge_tools == PLOTS(PLOT_CATEGORIES[plot_category], MERGE_TOOL)
           outcome == check_fingerprint_consistency(result_df, fingerprint', merge_tools)
       IN  /\ error' = outcome
           /\ pc' = IF outcome = NoError THEN "summarize" ELSE "aborted"
    /\ UNCHANGED <<result_df, plot_category, correct, incorrect, unhandled, written>>
    /\ UNCHANGED <<varsR, varsD, varsP>>

(***************************************************************************)
(* Cost plot.  The cost factors and the scores are floating-point numbers  *)
(* in the script; here they are exact fractions [num, den] with den > 0.   *)
(* A fraction with den = 0 stands for the nan that a division by zero      *)
(* gives.                                                                  *)
(***************************************************************************)

\* Number of cost factors of a plot line (1000 in the script).
CostSteps == 3

Frac(n, d) == [num |-> n, den |-> d]

IsNan(x) == x.den = 0

\* x <= y for fractions that are numbers.
FracLeq(x, y) == x.num * y.den <= y.num * x.den

\* max(x, y) as Python computes it: y if y > x, else x.
FracMax(x, y) == IF FracLeq(y, x) THEN x ELSE y

\* Lines 534-543: the largest (total - unhandled) / incorrect over the first k
\* merge tools that have an incorrect merge, starting from 0.
RECURSIVE max_cost_intersection(_, _, _, _)
max_cost_intersection(u, i, c, k) ==
    IF k = 0 THEN Frac(0, 1)
    ELSE LET before == max_cost_intersection(u, i, c, k - 1)
         IN  IF i[k] = 0 THEN before
             ELSE FracMax(before, Frac((u[k] + i[k] + c[k]) - u[k], i[k]))

\* np.linspace(1, stop, n): n evenly spaced numbers from 1 to stop.
linspace(stop, n) ==
    [j \in 1 .. n |->
        Frac((n - 1) * stop.den + (j - 1) * (stop.num - stop.den), (n - 1) * stop.den)]

\* Variant: the cost of the incorrect merges is subtracted from the score.
score_CostSubtracted(u, i, c, cost_factor) ==
    Frac((u + i + c) * cost_factor.den - (u * cost_factor.den - i * cost_factor.num),
         (u + i + c) * cost_factor.den)

\* Lines 549-551 and 588-590:
\* 1 - (unhandled * 1 + incorrect * cost_factor) / (unhandled + incorrect + correct)
score(u, i, c, cost_factor) ==
    Frac((u + i + c) * cost_factor.den - (u * cost_factor.den + i * cost_factor.num),
         (u + i + c) * cost_factor.den)

\* Lines 546-552 and 586-591: the scores of every counted column at the cost
\* factors.
Scores(u, i, c, factors) ==
    [k \in DOMAIN u |-> [j \in DOMAIN factors |-> score(u[k], i[k], c[k], factors[j])]]

\* Lines 448-710: heat map, bucket counts with their assertions, cost plots
\* and tables of the current category.
SummarizeCategory ==
    /\ pc = "summarize"
    /\ LET category == PLOT_CATEGORIES[plot_category]
           columns == CountedColumns(category, MERGE_TOOL)
           upto == CountedUpTo(result_df, columns)
           failed == \E k \in DOMAIN columns : BucketAssertFails(result_df, columns, k)
       IN  /\ correct' = [k \in 1 .. upto |-> CountIn(result_df, columns[k], MERGE_CORRECT_NAMES)]
           /\ incorrect' = [k \in 1 .. upto |-> CountIn(result_df, columns[k], MERGE_INCORRECT_NAMES)]
           /\ unhandled' = [k \in 1 .. upto |-> CountIn(result_df, columns[k], MERGE_UNHANDLED_NAMES)]
           /\ IF failed
              THEN /\ error' = BucketAssertion
                   /\ pc' = "aborted"
                   /\ written' = written \cup {<<category, "heatmap">>}
                   /\ UNCHANGED <<plot_category, cost_factors, results>>
              ELSE /\ UNCHANGED error
                   /\ written' = written \cup
                        {<<category, "heatmap">>, <<category, "cost plots">>, <<category, "tables">>}
                   /\ cost_factors' = linspace(max_cost_intersection(unhandled', incorrect', correct',
                                                                     Len(columns) - 1),
                                               CostSteps)
                   /\ results' = Scores(unhandled', incorrect', correct', cost_factors')
                   /\ IF plot_category < Len(PLOT_CATEGORIES)
                      THEN /\ plot_category' = plot_category + 1
                           /\ pc' = "check"
                      ELSE /\ UNCHANGED plot_category
                           /\ pc' = "defs"
    /\ UNCHANGED <<result_df, fingerprint>>
    /\ UNCHANGED <<varsR, varsD>>

\* Lines 712-901: defs.tex.  The percentages divide by len(result_df).
WriteDefs ==
    /\ pc = "defs"
    /\ IF Len(result_df) = 0
       THEN /\ error' = ZeroDivision
            /\ pc' = "aborted"
            /\ UNCHANGED written
       ELSE /\ written' = written \cup {<<"defs.tex">>}
            /\ pc' = "done"
            /\ UNCHANGED error
    /\ UNCHANGED <<result_df, fingerprint, plot_category, correct, incorrect, unhandled>>
    /\ UNCHANGED <<varsR, varsD, varsP>>

Next ==
    \/ LoadResults
    \/ RemoveUndesiredStates
    \/ AddOracleColumn
    \/ WriteResultCsv
    \/ CheckFingerprints
    \/ SummarizeCategory
    \/ WriteDefs

Spec == InitMain /\ [][Next]_vars

(***************************************************************************)
(* SpecFingerprint: check_fingerprint_consistency on drawn tables          *)
(***************************************************************************)

\* Number of tools in the tables given to check_fingerprint_consistency.
FpNumTools == 4

\* Largest number of rows of those tables.
FpMaxRows == 1

\* Number of distinct fingerprints besides the missing one in those tables.
FpMaxFingerprint == 2

\* The tool enumeration of these tables.
FpTools == FirstTools(FpNumTools)

\* The merge_tools argument of the call.
FpMergeTools == PLOTS(PLOT_CATEGORIES[plot_category], FpTools)

\* The table is one main has filtered; the tool list is one of PLOTS.
InitFingerprint ==
    /\ pc = "call"
    /\ \E n \in 1 .. FpMaxRows :
          /\ result_df \in Tables(n, FpTools, FilteredStates)
          /\ fingerprint \in Tables(n, FpTools, Fingerprints(FpMaxFingerprint))
    /\ plot_category \in DOMAIN PLOT_CATEGORIES
    /\ correct = <<>>
    /\ incorrect = <<>>
    /\ unhandled = <<>>
    /\ written = {}
    /\ error = NoError
    /\ ReconcileIdle
    /\ Diff3Idle
    /\ PlotIdle

CallCheckFingerprintConsistency ==
    /\ pc = "call"
    /\ error' = check_fingerprint_consistency(result_df, fingerprint, FpMergeTools)
    /\ pc' = "returned"
    /\ UNCHANGED <<result_df, fingerprint, plot_category, correct, incorrect, unhandled, written>>
    /\ UNCHANGED <<varsR, varsD, varsP>>

NextFingerprint == CallCheckFingerprintConsistency

SpecFingerprint == InitFingerprint /\ [][NextFingerprint]_vars

(***************************************************************************)
(* Claims about the oracle column and the buckets, checked under Spec      *)
(***************************************************************************)

\* reconcile folded left to right over exactly the tools' states of a row.
RECURSIVE FoldOfToolStates(_, _, _)
FoldOfToolStates(row, tools, k) ==
    IF k = 1 THEN row[tools[1]]
    ELSE CallAfter(FoldOfToolStates(row, tools, k - 1), row[tools[k]])

\* The rows that have their "Oracle tool" cell.
OracleRows == { i \in DOMAIN result_df : OracleTool \in DOMAIN result_df[i] }

\* C4: for every scenario left by the filter, the "Oracle tool" value equals
\* the left-to-right fold of reconcile over exactly the outcome states of all
\* merge tools, no other state entering the fold; when every tool timed out
\* the oracle outcome is Tests_timedout.
C4_OracleIsFoldOfToolStates ==
    \A i \in OracleRows :
        /\ result_df[i][OracleTool]
              = FoldOfToolStates(result_df[i], MERGE_TOOL, Len(MERGE_TOOL))
        /\ (\A t \in Range(MERGE_TOOL) : result_df[i][t] = Tests_timedout)
              => result_df[i][OracleTool] = Tests_timedout

\* C5: the oracle outcome of a scenario is Tests_passed if and only if at
\* least one merge tool's outcome for that scenario is Tests_passed.
C5_OraclePassedIffSomeToolPassed ==
    \A i \in OracleRows :
        (result_df[i][OracleTool] = Tests_passed)
            <=> (\E t \in Range(MERGE_TOOL) : result_df[i][t] = Tests_passed)

\* C5 witness: a scenario where only the last tool passed and another tool
\* failed to merge has the oracle outcome Tests_passed.
C5_Witness ==
    \E i \in OracleRows :
        /\ result_df[i][MERGE_TOOL[1]] = Merge_failed
        /\ result_df[i][MERGE_TOOL[2]] = Tests_failed
        /\ result_df[i][MERGE_TOOL[Len(MERGE_TOOL)]] = Tests_passed
        /\ result_df[i][OracleTool] = Tests_passed

\* The three buckets.
Buckets == <<MERGE_CORRECT_NAMES, MERGE_INCORRECT_NAMES, MERGE_UNHANDLED_NAMES>>

\* Number of buckets a value belongs to.
BucketsOf(value) == Cardinality({ b \in DOMAIN Buckets : value \in Range(Buckets[b]) })

\* C6: once the rows with an undesirable state are removed, every value of
\* every tool column and of the oracle column is in exactly one of the buckets
\* correct, incorrect, unhandled; so the three counts of a column add up to the
\* number of rows and the bucket-sum assertions of main never fail.
C6_BucketsPartition ==
    /\ pc \notin {"load", "filter"} =>
          \A i \in DOMAIN result_df : \A c \in DOMAIN result_df[i] :
              BucketsOf(result_df[i][c]) = 1
    /\ error # BucketAssertion
    /\ \A k \in DOMAIN correct :
          correct[k] + incorrect[k] + unhandled[k] = Len(result_df)

\* C6 witness: the first category has been counted over two rows, the first
\* tool's column holding one correct and one unhandled outcome.
C6_Witness ==
    /\ pc = "check"
    /\ plot_category = 2
    /\ Len(result_df) = 2
    /\ Len(correct) = Len(MERGE_TOOL) + 1
    /\ correct[1] = 1
    /\ unhandled[1] = 1
    /\ incorrect[Len(incorrect)] = 0

(***************************************************************************)
(* Claims about check_fingerprint_consistency, checked under               *)
(* SpecFingerprint                                                         *)
(***************************************************************************)

\* The adjacency-based and import-reordering variants.
IsVariant(tool) ==
    tool \in {"gitmerge_ort_adjacent", "gitmerge_ort_imports", "gitmerge_ort_imports_ignorespace"}

\* Some scenario gives the two tools the same fingerprint and different outcomes.
FingerprintMismatch(t1, t2) ==
    \E i \in DOMAIN result_df :
        /\ SameFingerprint(fingerprint[i][t1], fingerprint[i][t2])
        /\ result_df[i][t1] # result_df[i][t2]

ExtractMaxLines == 2

\* Largest number of pieces of such a line.
ExtractMaxLineLen == 4

CONFLICT_OPEN == "CONFLICT ("

MERGE_CONFLICT_IN == "): Merge conflict in "

\* The end of a kind that is not followed by "Merge conflict in".
CLOSE_COLON == "): "

SetMin(S) == CHOOSE x \in S : \A y \in S : x <= y

SetMax(S) == CHOOSE x \in S : \A y \in S : x >= y

\* The sequences over S of length at most n.
SeqUpTo(S, n) == UNION { [1 .. k -> S] : k \in 0 .. n }

\* Variant: the pattern without "Merge conflict in": any "): " ends the kind.
MatchEnds_AnyColon(line, p) ==
    { q \in (p + 2) .. (Len(line) - 1) : line[q] \in {MERGE_CONFLICT_IN, CLOSE_COLON} }

\* Where "\): Merge conflict in " can match for a match that starts at piece
\* p: after a kind of at least one piece, before a path of at least one piece.
MatchEnds(line, p) ==
    { q \in (p + 2) .. (Len(line) - 1) : line[q] = MERGE_CONFLICT_IN }

\* The pieces of a line at which a match can start.
MatchStarts(line) ==
    { p \in DOMAIN line : line[p] = CONFLICT_OPEN /\ MatchEnds(line, p) # {} }

\* The group of the match in a line that has one: the search takes the
\* leftmost start, the kind ".+" is greedy, and the group ".+" runs to the end
\* of the line.
CapturedGroup(line) ==
    LET p == SetMin(MatchStarts(line))
        q == SetMax(MatchEnds(line, p))
    IN  SubSeq(line, q + 1, Len(line))

\* Variant: a path that was already found is not reported again.
RECURSIVE findall_Dedup(_)
findall_Dedup(lines) ==
    IF lines = <<>> THEN <<>>
    ELSE LET front == findall_Dedup(SubSeq(lines, 1, Len(lines) - 1))
             line == lines[Len(lines)]
         IN  IF MatchStarts(line) = {} \/ CapturedGroup(line) \in Range(front)
             THEN front
             ELSE Append(front, CapturedGroup(line))

\* re.findall(r"CONFLICT \(.+\): Merge conflict in (.+)", stdout): the groups
\* of the non-overlapping matches, scanning the text from its start.  A match
\* ends at the end of its line, so a line gives at most one.
RECURSIVE findall(_)
findall(lines) ==
    IF lines = <<>> THEN <<>>
    ELSE IF MatchStarts(Head(lines)) = {}
         THEN findall(Tail(lines))
         ELSE <<CapturedGroup(Head(lines))>> \o findall(Tail(lines))

\* The pieces of the console lines given to the extraction.
ExtractPieces ==
    {CONFLICT_OPEN, MERGE_CONFLICT_IN, "content", "add/add", "src/A.txt", "src/B.txt"}

InitExtract ==
    /\ program = "findall"
    /\ dpc = "extract"
    /\ tool_args = <<>>
    /\ \E n \in 0 .. ExtractMaxLines :
          stdout \in [1 .. n -> SeqUpTo(ExtractPieces, ExtractMaxLineLen)]
    /\ conflict_file_matches = <<>>
    /\ next_match = 0
    /\ files = {}
    /\ ops = <<>>
    /\ records = <<>>
    /\ artifacts = {}
    /\ derror = NoError
    /\ ReconcileIdle
    /\ MainIdle
    /\ PlotIdle

ExtractConflicts ==
    /\ dpc = "extract"
    /\ conflict_file_matches' = findall(stdout)
    /\ dpc' = "extracted"
    /\ UNCHANGED <<program, tool_args, stdout, next_match, files, ops, records, artifacts, derror>>
    /\ UNCHANGED <<varsR, varsM, varsP>>

NextExtract == ExtractConflicts

SpecExtract == InitExtract /\ [][NextExtract]_vars

(***************************************************************************)
(* Claims about the extraction, checked under SpecExtract                  *)
(***************************************************************************)

\* A line that matches 'CONFLICT (<kind>): Merge conflict in <path>' with a
\* kind and a path that are not empty.
IsConflictLine(line) ==
    \E p \in DOMAIN line, q \in DOMAIN line :
        /\ line[p] = CONFLICT_OPEN
        /\ p + 1 < q
        /\ line[q] = MERGE_CONFLICT_IN
        /\ q < Len(line)

\* The <path> of a conflict line: what follows its last "Merge conflict in".
PathOfLine(line) ==
    LET ends == { q \in DOMAIN line :
                    /\ line[q] = MERGE_CONFLICT_IN
                    /\ q < Len(line)
                    /\ \E p \in DOMAIN line : line[p] = CONFLICT_OPEN /\ p + 1 < q }
    IN  SubSeq(line, SetMax(ends) + 1, Len(line))

\* The conflict lines of the console output.
ConflictLines == { i \in DOMAIN stdout : IsConflictLine(stdout[i]) }

\* C8: the extraction returns the captured path of every matching line, in
\* the order of the lines, duplicate paths kept, and the empty sequence when
\* no line matches.
C8_PathsOfConflictLinesInOrder ==
    dpc = "extracted" =>
        /\ Len(conflict_file_matches) = Cardinality(ConflictLines)
        /\ \A i \in ConflictLines :
              conflict_file_matches[Cardinality({ j \in ConflictLines : j <= i })]
                  = PathOfLine(stdout[i])

\* C8 witness: a content conflict on src/A.txt followed by an add/add conflict
\* on src/B.txt gave [src/A.txt, src/B.txt].
C8_Witness ==
    /\ dpc = "extracted"
    /\ stdout = << <<CONFLICT_OPEN, "content", MERGE_CONFLICT_IN, "src/A.txt">>,
                   <<CONFLICT_OPEN, "add/add", MERGE_CONFLICT_IN, "src/B.txt">> >>
    /\ conflict_file_matches = << <<"src/A.txt">>, <<"src/B.txt">> >>

(***************************************************************************)
(* diff3_analysis and diff3_pair_analysis                                  *)
(*                                                                         *)
(* A conflicting file path is a sequence of pieces: directory pieces that  *)
(* end in "/", then the pieces of the file name, the last of which may be  *)
(* an extension.  The content of a file in a workspace is Absent or a      *)
(* version of its text.                                                    *)
(***************************************************************************)

\* Largest number of lines of the merge tool's console output.
MaxConsoleLines == 2

DIFF3_ANALYSIS == "diff3_analysis"

DIFF3_PAIR_ANALYSIS == "diff3_pair_analysis"

\* The merge tools given as arguments.
DiffTools == {"gitmerge_ort", "spork"}

\* str(results_index)
results_index == "42"

repo_output_dir == "<output_root>"

MERGE_ATTEMPT == "./repos/merge_attempt"

MERGE_ATTEMPT1 == "./repos/merge_attempt1"

MERGE_ATTEMPT2 == "./repos/merge_attempt2"

PROGRAMMER_MERGE == "./repos/programmer_merge"

BASE == "./repos/base"

REPOS == "./repos"

\* tempfile.NamedTemporaryFile(...).name
TempFile == <<"<temp_file>">>

CalledProcessError == "subprocess.CalledProcessError"

\* The file does not exist in the workspace.
Absent == "absent"

\* The path is a directory in the workspace.
Directory == "directory"

Contents == {Absent, Directory, "v1", "v2"}

DirPieces == {"src/", "test/"}

ExtPieces == {".java", ".txt"}

\* The lines the merge tool prints: conflicts in two files of the same name,
\* a line about a clean file, and a conflict of a kind that is not reported
\* with "Merge conflict in".
ConsoleLines ==
    { <<CONFLICT_OPEN, "content", MERGE_CONFLICT_IN, "src/", "A", ".java">>,
      <<CONFLICT_OPEN, "content", MERGE_CONFLICT_IN, "test/", "A", ".java">>,
      <<"Auto-merging ", "src/", "A", ".java">>,
      <<CONFLICT_OPEN, "modify/delete", CLOSE_COLON, "src/", "A", ".java",
        " deleted in HEAD and modified in TEMP_RIGHT_BRANCH.">> }

\* An external command or library call: what ran, in which workspace, on what.
Op(op, ws, arg) == [op |-> op, ws |-> ws, arg |-> arg, file |-> <<>>]

FileOp(op, ws, file) == [op |-> op, ws |-> ws, arg |-> "", file |-> file]

NO_SUCH_FILE == "No such file or directory"

IS_A_DIRECTORY == "Is a directory"

\* diff3 base attempt human: what it prints.  With a missing file or a
\* directory it prints nothing; with three equal files there is no difference
\* to print.
diff3_stdout(b, a, h) ==
    IF {Absent, Directory} \cap {b, a, h} # {} \/ (b = a /\ a = h)
    THEN <<>>
    ELSE <<"diff3", b, a, h>>

\* diff3's diagnostics: it stops at the first of base, attempt, human that it
\* cannot read and reports it, a missing file as "No such file or directory",
\* a directory as "Is a directory".
diff3_stderr(b, a, h) ==
    LET args == <<b, a, h>>
        unreadable == { n \in DOMAIN args : args[n] \in {Absent, Directory} }
    IN  IF unreadable = {} THEN ""
        ELSE IF args[SetMin(unreadable)] = Absent THEN NO_SUCH_FILE
        ELSE IS_A_DIRECTORY

\* diff attempt human: what it prints; its diagnostics are not captured.
diff_stdout(a, h) ==
    IF {Absent, Directory} \cap {a, h} # {} \/ a = h THEN <<>> ELSE <<"diff", a, h>>

\* Variant: the diagnostics of diff3 are not looked at.
UsesFallback_Never(stderr) == FALSE

\* error_message in diff_results.stderr
UsesFallback(stderr) == stderr = NO_SUCH_FILE

\* diff_results after the comparison of one file in one merge attempt: the
\* commands that ran, the stdout of the last one, and the stderr diff3 gave.
diff_results(b, a, h) ==
    IF UsesFallback(diff3_stderr(b, a, h))
    THEN [ran |-> <<"diff3", "diff">>, out |-> diff_stdout(a, h),
          err |-> diff3_stderr(b, a, h)]
    ELSE [ran |-> <<"diff3">>, out |-> diff3_stdout(b, a, h),
          err |-> diff3_stderr(b, a, h)]

\* The commands of a comparison as entries of the log.
RanOps(ran, ws, file) == [i \in DOMAIN ran |-> FileOp(ran[i], ws, file)]

\* Variant: the directories of the path are kept.
basename_KeepDirs(path) == path

\* os.path.basename: what follows the last directory piece.
basename(path) ==
    LET dirs == { i \in DOMAIN path : path[i] \in DirPieces }
    IN  IF dirs = {} THEN path ELSE SubSeq(path, SetMax(dirs) + 1, Len(path))

\* os.path.splitext(name)[0]: the name without its extension; a name that is
\* only an extension piece keeps it.
splitext_root(name) ==
    IF Len(name) >= 2 /\ name[Len(name)] \in ExtPieces
    THEN SubSeq(name, 1, Len(name) - 1)
    ELSE name

\* os.path.join(repo_output_dir, str(results_index), merge_tool, f"diff_{conflicting_file_base}.txt")
diff_filename(merge_tool, conflicting_file) ==
    <<repo_output_dir, "/", results_index, "/", merge_tool, "/", "diff_">>
        \o splitext_root(basename(conflicting_file)) \o <<".txt">>

\* Variant: the file is opened for appending.
WriteFile_Append(fs, path, text) ==
    { a \in fs : a.path # path }
        \cup { [path |-> path,
                text |-> IF \E a \in fs : a.path = path
                         THEN (CHOOSE a \in fs : a.path = path).text \o text
                         ELSE text] }

\* open(path, "w") and write: the file holds the text and nothing else.
WriteFile(fs, path, text) ==
    { a \in fs : a.path # path } \cup { [path |-> path, text |-> text] }

\* os.remove(path)
RemoveFile(fs, path) == { a \in fs : a.path # path }

\* The content of a conflicting file in the workspaces: what was read before,
\* or any content when the file is read for the first time.  A workspace the
\* script does not create holds no file.
FileStates(file, attempts2) ==
    IF \E c \in files : c.file = file
    THEN { c \in files : c.file = file }
    ELSE { [file |-> file, base |-> b, attempt1 |-> a1, attempt2 |-> a2, human |-> h] :
             b \in Contents, a1 \in Contents, a2 \in attempts2, h \in Contents }

\* Clone the repository into a workspace, fetch, and make TEMP_LEFT_BRANCH and
\* TEMP_RIGHT_BRANCH from the left and right commits.
PrepareMergeAttempt(ws) ==
    << Op("clone", ws, ""), Op("fetch", ws, ""),
       Op("checkout", ws, "left"), Op("checkout -b", ws, "TEMP_LEFT_BRANCH"),
       Op("checkout", ws, "right"), Op("checkout -b", ws, "TEMP_RIGHT_BRANCH") >>

\* What one comparison read, ran and stored.
DiffRecord(file, tool, ws, b, a, h, res, path) ==
    [file |-> file, tool |-> tool, ws |-> ws, base |-> b, attempt |-> a, human |-> h,
     ran |-> res.ran, out |-> res.out, stderr |-> res.err, path |-> path]

InitDiff3 ==
    /\ program \in {DIFF3_ANALYSIS, DIFF3_PAIR_ANALYSIS}
    /\ dpc = "start"
    /\ tool_args \in (IF program = DIFF3_ANALYSIS THEN [1 .. 1 -> DiffTools]
                                                  ELSE [1 .. 2 -> DiffTools])
    /\ stdout = <<>>
    /\ conflict_file_matches = <<>>
    /\ next_match = 0
    /\ files = {}
    /\ ops = <<>>
    /\ records = <<>>
    /\ artifacts = {}
    /\ derror = NoError
    /\ ReconcileIdle
    /\ MainIdle
    /\ PlotIdle

\* diff3_analysis up to the invocation of the merge tool.
SinglePrepare ==
    /\ program = DIFF3_ANALYSIS
    /\ dpc = "start"
    /\ ops' = ops \o PrepareMergeAttempt(MERGE_ATTEMPT)
    /\ dpc' = "invoke"
    /\ UNCHANGED <<program, tool_args, stdout, conflict_file_matches, next_match, files,
                   records, artifacts, derror>>
    /\ UNCHANGED <<varsR, varsM, varsP>>

\* diff3_pair_analysis up to the invocation of the first merge tool: ./repos is
\* removed, merge_attempt1 and base are prepared.
PairPrepare ==
    /\ program = DIFF3_PAIR_ANALYSIS
    /\ dpc = "start"
    /\ ops' = ops \o << Op("rmtree", REPOS, "") >> \o PrepareMergeAttempt(MERGE_ATTEMPT1)
                  \o << Op("merge-base", MERGE_ATTEMPT1, ""),
                        Op("clone", BASE, ""), Op("fetch", BASE, ""),
                        Op("checkout", BASE, "base") >>
    /\ dpc' = "invoke"
    /\ UNCHANGED <<program, tool_args, stdout, conflict_file_matches, next_match, files,
                   records, artifacts, derror>>
    /\ UNCHANGED <<varsR, varsM, varsP>>

\* The script of the first merge tool runs on the merge attempt and the paths
\* of the conflicts it reports are extracted from what it prints.
InvokeMergeTool ==
    /\ program \in {DIFF3_ANALYSIS, DIFF3_PAIR_ANALYSIS}
    /\ dpc = "invoke"
    /\ ops' = Append(ops, Op("invoke",
                             IF program = DIFF3_ANALYSIS THEN MERGE_ATTEMPT ELSE MERGE_ATTEMPT1,
                             tool_args[1]))
    /\ \E n \in 0 .. MaxConsoleLines : \E printed \in [1 .. n -> ConsoleLines] :
          /\ stdout' = printed
          /\ conflict_file_matches' = findall(printed)
    /\ dpc' = "extracted"
    /\ UNCHANGED <<program, tool_args, next_match, files, records, artifacts, derror>>
    /\ UNCHANGED <<varsR, varsM, varsP>>

\* diff3_pair_analysis: no conflict was reported, the script returns.
PairEarlyReturn ==
    /\ program = DIFF3_PAIR_ANALYSIS
    /\ dpc = "extracted"
    /\ conflict_file_matches = <<>>
    /\ dpc' = "done"
    /\ UNCHANGED <<program, tool_args, stdout, conflict_file_matches, next_match, files, ops,
                   records, artifacts, derror>>
    /\ UNCHANGED <<varsR, varsM, varsP>>

\* diff3_pair_analysis: programmer_merge and merge_attempt2 are prepared; the
\* script of the second merge tool is named but not run.
PairPrepareComparison ==
    /\ program = DIFF3_PAIR_ANALYSIS
    /\ dpc = "extracted"
    /\ conflict_file_matches # <<>>
    /\ ops' = ops \o << Op("clone", PROGRAMMER_MERGE, ""),
                        Op("checkout", PROGRAMMER_MERGE, "merge") >>
                  \o PrepareMergeAttempt(MERGE_ATTEMPT2)
    /\ next_match' = 1
    /\ dpc' = "compare1"
    /\ UNCHANGED <<program, tool_args, stdout, conflict_file_matches, files, records,
                   artifacts, derror>>
    /\ UNCHANGED <<varsR, varsM, varsP>>

\* diff3_analysis: programmer_merge and base are prepared, without a fetch.
SinglePrepareComparison ==
    /\ program = DIFF3_ANALYSIS
    /\ dpc = "extracted"
    /\ ops' = ops \o << Op("clone", PROGRAMMER_MERGE, ""),
                        Op("checkout", PROGRAMMER_MERGE, "merge"),
                        Op("clone", BASE, ""), Op("checkout", BASE, "base") >>
    /\ next_match' = 1
    /\ dpc' = "compare"
    /\ UNCHANGED <<program, tool_args, stdout, conflict_file_matches, files, records,
                   artifacts, derror>>
    /\ UNCHANGED <<varsR, varsM, varsP>>

\* diff3_pair_analysis, first half of the loop body: the file of merge_attempt1
\* is compared and the output is written under the name of the first tool.
PairCompareAttempt1 ==
    /\ program = DIFF3_PAIR_ANALYSIS
    /\ dpc = "compare1"
    /\ next_match <= Len(conflict_file_matches)
    /\ LET conflicting_file == conflict_file_matches[next_match]
           path == diff_filename(tool_args[1], conflicting_file)
       IN  \E c \in FileStates(conflicting_file, Contents) :
             LET res == diff_results(c.base, c.attempt1, c.human)
             IN  /\ files' = files \cup {c}
                 /\ ops' = ops \o RanOps(res.ran, MERGE_ATTEMPT1, conflicting_file)
                               \o << FileOp("write", tool_args[1], path),
                                     FileOp("print", tool_args[1], path) >>
                 /\ records' = Append(records,
                                      DiffRecord(conflicting_file, tool_args[1], MERGE_ATTEMPT1,
                                                 c.base, c.attempt1, c.human, res, path))
                 /\ artifacts' = WriteFile(artifacts, path, res.out)
    /\ dpc' = "compare2"
    /\ UNCHANGED <<program, tool_args, stdout, conflict_file_matches, next_match, derror>>
    /\ UNCHANGED <<varsR, varsM, varsP>>

\* diff3_pair_analysis, second half of the loop body: the same for
\* merge_attempt2 and the second tool.
PairCompareAttempt2 ==
    /\ program = DIFF3_PAIR_ANALYSIS
    /\ dpc = "compare2"
    /\ LET conflicting_file == conflict_file_matches[next_match]
           path == diff_filename(tool_args[2], conflicting_file)
       IN  \E c \in FileStates(conflicting_file, Contents) :
             LET res == diff_results(c.base, c.attempt2, c.human)
             IN  /\ ops' = ops \o RanOps(res.ran, MERGE_ATTEMPT2, conflicting_file)
                               \o << FileOp("write", tool_args[2], path),
                                     FileOp("print", tool_args[2], path) >>
                 /\ records' = Append(records,
                                      DiffRecord(conflicting_file, tool_args[2], MERGE_ATTEMPT2,
                                                 c.base, c.attempt2, c.human, res, path))
                 /\ artifacts' = WriteFile(artifacts, path, res.out)
    /\ next_match' = next_match + 1
    /\ dpc' = "compare1"
    /\ UNCHANGED <<program, tool_args, stdout, conflict_file_matches, files, derror>>
    /\ UNCHANGED <<varsR, varsM, varsP>>

\* diff3_pair_analysis: the loop is over, the script returns.
PairReturn ==
    /\ program = DIFF3_PAIR_ANALYSIS
    /\ dpc = "compare1"
    /\ next_match > Len(conflict_file_matches)
    /\ dpc' = "done"
    /\ UNCHANGED <<program, tool_args, stdout, conflict_file_matches, next_match, files, ops,
                   records, artifacts, derror>>
    /\ UNCHANGED <<varsR, varsM, varsP>>

\* diff3_analysis, loop body: the file is compared, the output is written to a
\* temporary file and shown with xdg-open; when xdg-open fails the script ends
\* with CalledProcessError, otherwise the temporary file is removed.
SingleCompare ==
    /\ program = DIFF3_ANALYSIS
    /\ dpc = "compare"
    /\ next_match <= Len(conflict_file_matches)
    /\ LET conflicting_file == conflict_file_matches[next_match]
       IN  \E c \in FileStates(conflicting_file, {Absent}) : \E opened \in BOOLEAN :
             LET res == diff_results(c.base, c.attempt1, c.human)
                 shown == ops \o RanOps(res.ran, MERGE_ATTEMPT, conflicting_file)
                              \o << FileOp("write", tool_args[1], TempFile),
                                    FileOp("xdg-open", tool_args[1], TempFile) >>
             IN  /\ files' = files \cup {c}
                 /\ records' = Append(records,
                                      DiffRecord(conflicting_file, tool_args[1], MERGE_ATTEMPT,
                                                 c.base, c.attempt1, c.human, res, TempFile))
                 /\ IF opened
                    THEN /\ ops' = Append(shown, FileOp("remove", tool_args[1], TempFile))
                         /\ artifacts' = RemoveFile(WriteFile(artifacts, TempFile, res.out), TempFile)
                         /\ next_match' = next_match + 1
                         /\ UNCHANGED <<dpc, derror>>
                    ELSE /\ ops' = shown
                         /\ artifacts' = WriteFile(artifacts, TempFile, res.out)
                         /\ dpc' = "done"
                         /\ derror' = CalledProcessError
                         /\ UNCHANGED next_match
    /\ UNCHANGED <<program, tool_args, stdout, conflict_file_matches>>
    /\ UNCHANGED <<varsR, varsM, varsP>>

\* diff3_analysis: the loop is over, the three workspaces are removed.
SingleCleanup ==
    /\ program = DIFF3_ANALYSIS
    /\ dpc = "compare"
    /\ next_match > Len(conflict_file_matches)
    /\ ops' = ops \o << Op("rm -rf", BASE, ""), Op("rm -rf", MERGE_ATTEMPT, ""),
                        Op("rm -rf", PROGRAMMER_MERGE, "") >>
    /\ dpc' = "done"
    /\ UNCHANGED <<program, tool_args, stdout, conflict_file_matches, next_match, files,
                   records, artifacts, derror>>
    /\ UNCHANGED <<varsR, varsM, varsP>>

NextDiff3 ==
    \/ SinglePrepare
    \/ PairPrepare
    \/ InvokeMergeTool
    \/ PairEarlyReturn
    \/ PairPrepareComparison
    \/ SinglePrepareComparison
    \/ PairCompareAttempt1
    \/ PairCompareAttempt2
    \/ PairReturn
    \/ SingleCompare
    \/ SingleCleanup

SpecDiff3 == InitDiff3 /\ [][NextDiff3]_vars

(***************************************************************************)
(* Claims about the two scripts, checked under SpecDiff3                   *)
(***************************************************************************)

\* Some command of the log has this name.
Ran(op) == \E i \in DOMAIN ops : ops[i].op = op

\* The merge tool has run and none of the lines it printed is a conflict line.
NoConflictReported ==
    /\ Ran("invoke")
    /\ \A i \in DOMAIN stdout : ~IsConflictLine(stdout[i])

\* C9: when the console output of the merge tool has no conflict line, the
\* script runs neither diff3 nor diff and writes no file for the scenario.
C9_NoConflictLineNoDiffNoArtifact ==
    NoConflictReported =>
        /\ ~Ran("diff3")
        /\ ~Ran("diff")
        /\ ~Ran("write")
        /\ records = <<>>
        /\ artifacts = {}

\* C9 witness: the two-tool script has returned after the tool printed only a
\* modify/delete conflict and a line about a clean file.
C9_Witness ==
    /\ program = DIFF3_PAIR_ANALYSIS
    /\ dpc = "done"
    /\ Len(stdout) = 2
    /\ stdout[1][1] = CONFLICT_OPEN
    /\ stdout[1][2] = "modify/delete"
    /\ stdout[2][1] = "Auto-merging "
    /\ NoConflictReported
    /\ ~Ran("diff3")
    /\ artifacts = {}

\* The comparisons of a file whose base version does not exist.
MissingBaseRecords == { i \in DOMAIN records : records[i].base = Absent }

\* The number of comparisons of a run that goes through all reported files.
ComparisonsOfFullRun == Len(conflict_file_matches) * Len(tool_args)

\* C10: for every conflicting file whose base version does not exist, diff3 is
\* followed by the two-way diff of (tool output, human merge) and what is
\* stored for the file is the output of that diff; the missing base raises no
\* error: the only error of a run is a failed xdg-open, and a run that ends
\* without error has compared every reported file.
C10_MissingBaseFallsBackToDiff ==
    /\ \A i \in MissingBaseRecords :
          /\ records[i].ran = <<"diff3", "diff">>
          /\ records[i].out = diff_stdout(records[i].attempt, records[i].human)
          /\ records[i].path # TempFile =>
                [path |-> records[i].path, text |-> records[i].out] \in artifacts
                    \/ \E j \in DOMAIN records : j > i /\ records[j].path = records[i].path
    /\ derror # NoError =>
          /\ derror = CalledProcessError
          /\ ops[Len(ops)].op = "xdg-open"
    /\ (dpc = "done" /\ derror = NoError) => Len(records) = ComparisonsOfFullRun

\* C10 witness: the first file had no base version, the versions of the tool
\* and of the human differ, the output of diff was stored, and the run went
\* on to the next file and ended without error.
C10_Witness ==
    /\ dpc = "done"
    /\ derror = NoError
    /\ Len(conflict_file_matches) = 2
    /\ conflict_file_matches[1] # conflict_file_matches[2]
    /\ records[1].base = Absent
    /\ records[1].attempt = "v1"
    /\ records[1].human = "v2"
    /\ records[1].ran = <<"diff3", "diff">>
    /\ records[1].out = <<"diff", "v1", "v2">>
    /\ records[Len(records)].file = conflict_file_matches[2]
    /\ records[Len(records)].base # Absent

\* The positions of the log at which a file of the workspace is compared.
DiffsIn(ws) == { i \in DOMAIN ops : ops[i].op \in {"diff3", "diff"} /\ ops[i].ws = ws }

\* The merge tool was run on the workspace before position i of the log, after
\* the workspace's TEMP_LEFT_BRANCH and TEMP_RIGHT_BRANCH were made.
InvokedBefore(tool, ws, i) ==
    \E j \in 1 .. (i - 1) :
        /\ ops[j] = Op("invoke", ws, tool)
        /\ \E l \in 1 .. (j - 1) : ops[l] = Op("checkout -b", ws, "TEMP_LEFT_BRANCH")
        /\ \E r \in 1 .. (j - 1) : ops[r] = Op("checkout -b", ws, "TEMP_RIGHT_BRANCH")

\* C11: in diff3_pair_analysis each of the two tools is run on its own merge
\* attempt, after the branches of that workspace are prepared, before any file
\* of that workspace is compared.
C11_EachToolInvokedBeforeItsDiffs ==
    program = DIFF3_PAIR_ANALYSIS =>
        /\ \A i \in DiffsIn(MERGE_ATTEMPT1) : InvokedBefore(tool_args[1], MERGE_ATTEMPT1, i)
        /\ \A i \in DiffsIn(MERGE_ATTEMPT2) : InvokedBefore(tool_args[2], MERGE_ATTEMPT2, i)

\* The last component of a conflicting file path without its extension: the
\* pieces after the last "/" up to the extension piece.
FileBasename(file) ==
    LET first == CHOOSE k \in 1 .. (Len(file) + 1) :
                     /\ \A i \in k .. Len(file) : file[i] \notin DirPieces
                     /\ k > 1 => file[k - 1] \in DirPieces
        last == IF first < Len(file) /\ file[Len(file)] \in ExtPieces
                THEN Len(file) - 1 ELSE Len(file)
    IN  [i \in 1 .. (last - first + 1) |-> file[first + i - 1]]

\* <output_root>/<scenario_id>/<tool_name>/diff_<file_basename>.txt
ArtifactPath(scenario_id, tool_name, file) ==
    <<"<output_root>", "/", scenario_id, "/", tool_name, "/", "diff_">>
        \o FileBasename(file) \o <<".txt">>

\* C12: every diff of diff3_pair_analysis is written to
\* <output_root>/<scenario_id>/<tool_name>/diff_<file_basename>.txt, whatever
\* the contents compared and whatever was written before.
C12_ArtifactPathFromScenarioToolBasename ==
    program = DIFF3_PAIR_ANALYSIS =>
        /\ \A i \in DOMAIN records :
              records[i].path = ArtifactPath("42", records[i].tool, records[i].file)
        /\ \A i \in DOMAIN ops :
              ops[i].op = "write" =>
                  \E f \in Range(conflict_file_matches) :
                      ops[i].file = ArtifactPath("42", ops[i].ws, f)
        /\ \A a \in artifacts :
              \E i \in DOMAIN records : a.path = records[i].path

\* C12 witness: scenario 42, tool gitmerge_ort, file src/A.java was written to
\* <output_root>/42/gitmerge_ort/diff_A.txt.
C12_Witness ==
    /\ program = DIFF3_PAIR_ANALYSIS
    /\ \E i \in DOMAIN records :
          /\ records[i].tool = "gitmerge_ort"
          /\ records[i].file = <<"src/", "A", ".java">>
          /\ records[i].path = <<"<output_root>", "/", "42", "/", "gitmerge_ort", "/",
                                 "diff_", "A", ".txt">>
          /\ \E a \in artifacts : a.path = records[i].path

\* The comparisons whose output was written to the path.
WritesTo(path) == { i \in DOMAIN records : records[i].path = path }

\* C13: an artifact holds exactly the diff text of the last write to its
\* path: a write to a path that already has an artifact replaces the content,
\* nothing of the earlier text remains.
C13_WriteReplacesContent ==
    program = DIFF3_PAIR_ANALYSIS =>
        /\ \A a \in artifacts, b \in artifacts : a.path = b.path => a = b
        /\ \A a \in artifacts :
              /\ WritesTo(a.path) # {}
              /\ a.text = records[SetMax(WritesTo(a.path))].out

\* C13 witness: the same tool was given twice; for the same file the first
\* write stored a diff3 text, the second write a different one, and the
\* artifact holds the second.
C13_Witness ==
    /\ program = DIFF3_PAIR_ANALYSIS
    /\ tool_args[1] = tool_args[2]
    /\ Len(records) = 2
    /\ records[1].file = records[2].file
    /\ records[1].path = records[2].path
    /\ records[1].out = <<"diff3", "v1", "v2", "v2">>
    /\ records[2].out = <<"diff3", "v1", "v1", "v2">>
    /\ artifacts = { [path |-> records[2].path, text |-> records[2].out] }

(***************************************************************************)
(* The score of the cost plot applied to drawn counts and cost factors     *)
(***************************************************************************)

\* Largest count of a bucket.
MaxCount == 3

\* Largest numerator and denominator of a drawn cost factor.
MaxCostNum == 4

MaxCostDen == 2

CostFactors == { Frac(n, d) : n \in 0 .. MaxCostNum, d \in 1 .. MaxCostDen }

InitScore ==
    /\ pc = "score"
    /\ result_df = <<>>
    /\ fingerprint = <<>>
    /\ plot_category = 0
    /\ correct \in [1 .. 1 -> 0 .. MaxCount]
    /\ incorrect \in [1 .. 1 -> 0 .. MaxCount]
    /\ unhandled \in [1 .. 1 -> 0 .. MaxCount]
    /\ written = {}
    /\ error = NoError
    /\ cost_factors \in [1 .. 2 -> CostFactors]
    /\ results = <<>>
    /\ ReconcileIdle
    /\ Diff3Idle

\* The body of the loop over the cost factors, for one column of counts.
ComputeScores ==
    /\ pc = "score"
    /\ results' = Scores(unhandled, incorrect, correct, cost_factors)
    /\ pc' = "scored"
    /\ UNCHANGED <<result_df, fingerprint, plot_category, correct, incorrect, unhandled,
                   written, error, cost_factors>>
    /\ UNCHANGED <<varsR, varsD>>

NextScore == ComputeScores

SpecScore == InitScore /\ [][NextScore]_vars

\* C14: with incorrect > 0, the effort reduction at the larger of two cost
\* factors is less than or equal to the one at the smaller.
C14_ScoreNonIncreasingInCostFactor ==
    (pc = "scored" /\ incorrect[1] > 0 /\ FracLeq(cost_factors[1], cost_factors[2])) =>
        /\ ~IsNan(results[1][1])
        /\ ~IsNan(results[1][2])
        /\ FracLeq(results[1][2], results[1][1])

\* C14 witness: one correct, one incorrect and one unhandled merge score 1/3
\* at cost factor 1 and 0 at cost factor 2.
C14_Witness ==
    /\ pc = "scored"
    /\ correct = <<1>> /\ incorrect = <<1>> /\ unhandled = <<1>>
    /\ cost_factors = << Frac(1, 1), Frac(2, 1) >>
    /\ results[1][1].num * 3 = results[1][1].den
    /\ results[1][2].num = 0

(***************************************************************************)
(* Claims about the cost plot of main, checked under Spec                  *)
(***************************************************************************)

\* C15: for counts with a positive total and every cost factor k >= 1, the
\* effort reduction computed for a column lies in the interval [0, 1].
C15_ScoreInUnitInterval ==
    \A k \in DOMAIN results : \A j \in DOMAIN results[k] :
        (correct[k] + incorrect[k] + unhandled[k] > 0 /\ FracLeq(Frac(1, 1), cost_factors[j])) =>
            /\ FracLeq(Frac(0, 1), results[k][j])
            /\ FracLeq(results[k][j], Frac(1, 1))

\* The command removes the workspace: ./repos as a whole, or the workspace.
Removes(o, ws) ==
    \/ o.op = "rmtree" /\ o.ws = REPOS
    \/ o.op = "rm -rf" /\ o.ws = ws

\* The commands that create a workspace or work on its content.
WorkspaceOps == {"clone", "fetch", "checkout", "checkout -b", "merge-base", "invoke", "diff3", "diff"}

\* C16: in both scripts every workspace is removed before the run clones
\* into it, checks out in it, or runs the merge tool or a diff on it, so
\* nothing left by an earlier run is used.
C16_WorkspacesRemovedBeforeUse ==
    \A i \in DOMAIN ops :
        ops[i].op \in WorkspaceOps =>
            \E j \in 1 .. (i - 1) : Removes(ops[j], ops[i].ws)

\* The workspaces the run has cloned.
ClonedWorkspaces == { ops[i].ws : i \in { n \in DOMAIN ops : ops[n].op = "clone" } }

\* The workspace was removed after it was cloned.
RemovedAfterClone(ws) ==
    \A i \in DOMAIN ops :
        (ops[i].op = "clone" /\ ops[i].ws = ws) =>
            \E j \in (i + 1) .. Len(ops) : Removes(ops[j], ws)

\* C17: when a run has returned, the early return of diff3_pair_analysis
\* included, every workspace the run cloned has been removed.
C17_WorkspacesRemovedAtReturn ==
    (dpc = "done" /\ derror = NoError) =>
        \A ws \in ClonedWorkspaces : RemovedAfterClone(ws)

\* C18: in every workspace, every forced checkout of a commit of the result
\* table (left, right, merge, base) or of the computed merge base comes after
\* a fetch in that workspace.
C18_FetchBeforeCheckout ==
    \A i \in DOMAIN ops :
        ops[i].op = "checkout" =>
            \E j \in 1 .. (i - 1) : ops[j] = Op("fetch", ops[i].ws, "")

\* C19: when a merge list is missing the run of main ends with an error, and
\* no output of the run (result.csv, plots, tables, defs.tex) has been written.
C19_MissingMergeListAbortsBeforeOutput ==
    /\ error = MissingMergeList => (pc = "aborted" /\ written = {})
    /\ (pc = "load" => written = {})

\* C19 witness: the run has ended on a missing merge list.
C19_Witness ==
    /\ pc = "aborted"
    /\ error = MissingMergeList
    /\ written = {}
    /\ result_df = <<>>

\* The diagnostic was shown to the user: a message with it was printed, or
\* the run ended with it as its error.
Surfaced(diagnostic) ==
    \/ \E i \in DOMAIN ops : ops[i].op = "print" /\ ops[i].arg = diagnostic
    \/ derror = diagnostic

\* C20: every diagnostic of diff3 other than "No such file or directory" is
\* surfaced to the user; only the latter is consumed by the fallback.
C20_OtherDiagnosticsSurfaced ==
    \A i \in DOMAIN records :
        records[i].stderr \notin {"", NO_SUCH_FILE} => Surfaced(records[i].stderr)

\* C21: what diff3_pair_analysis persists of a comparison (the artifact's path
\* and text) tells its diff mode: two comparisons persisted alike ran the same
\* commands, so a two-way fallback is never persisted like a three-way diff.
C21_PersistedRecordCarriesMode ==
    program = DIFF3_PAIR_ANALYSIS =>
        \A i \in DOMAIN records, j \in DOMAIN records :
            (records[i].path = records[j].path /\ records[i].out = records[j].out)
                => records[i].ran = records[j].ran

\* C22: in a run of diff3_pair_analysis, two distinct conflicting file paths
\* compared for the same tool are written to two distinct artifact files, so
\* an artifact is only written again when its own file path is reported again.
C22_DistinctFilesDistinctArtifacts ==
    program = DIFF3_PAIR_ANALYSIS =>
        \A i \in DOMAIN records, j \in DOMAIN records :
            (records[i].tool = records[j].tool /\ records[i].file # records[j].file)
                => records[i].path # records[j].path

\* The column of the oracle among the counted columns.
OracleColumn == Len(correct)

\* The cost plot of the current category has been computed.
CostPlotDone ==
    /\ error = NoError
    /\ results # <<>>
    /\ Len(results) = Len(correct)

\* unhandled + k * incorrect of counted column c at cost factor k, times the
\* denominator of k.
EffortTimesDen(c, k) == unhandled[c] * k.den + incorrect[c] * k.num

\* C23: over the rows left by the filter, at every cost factor k >= 1 the
\* effort reduction of the oracle is greater than or equal to that of every
\* tool; equivalently unhandled_oracle + k * incorrect_oracle
\* <= unhandled_tool + k * incorrect_tool.
C23_OracleAtLeastEveryTool ==
    CostPlotDone =>
        \A t \in 1 .. (OracleColumn - 1) :
            /\ \A k \in CostFactors :
                  FracLeq(Frac(1, 1), k) => EffortTimesDen(OracleColumn, k) <= EffortTimesDen(t, k)
            /\ \A j \in DOMAIN cost_factors :
                  (FracLeq(Frac(1, 1), cost_factors[j]) /\ ~IsNan(results[t][j]))
                      => FracLeq(results[t][j], results[OracleColumn][j])

\* C23 witness: over two rows the oracle is correct twice while the first tool
\* has one incorrect and one unhandled merge; at the last cost factor the
\* oracle's effort reduction is strictly greater than the tool's.
C23_Witness ==
    /\ CostPlotDone
    /\ Len(result_df) = 2
    /\ correct[OracleColumn] = 2
    /\ incorrect[1] = 1
    /\ unhandled[1] = 1
    /\ ~FracLeq(results[OracleColumn][CostSteps], results[1][CostSteps])

\* The outcomes a fold that starts from Tests_failed can give.
SeededFoldOutcomes == {Tests_passed, Merge_failed, Tests_failed}

\* C24: the oracle fold of main starts from Tests_failed, so it never fails
\* with Invalid case and the oracle outcome of every scenario is Tests_passed,
\* Merge_failed or Tests_failed, never Tests_timedout: for the rows of the
\* table, and for every row of tool outcome values, undesirable ones included.
C24_SeededFoldNeverFails ==
    /\ error # InvalidCase
    /\ \A i \in OracleRows : result_df[i][OracleTool] \in SeededFoldOutcomes
    /\ pc = "csv" =>
          \A row \in [Range(MERGE_TOOL) -> STATE_NAMES] :
              OracleAfter(row, MERGE_TOOL, Len(MERGE_TOOL)) \in SeededFoldOutcomes

\* C24 witness: every tool timed out on a scenario and its oracle outcome is
\* Tests_failed.
C24_Witness ==
    /\ pc = "csv"
    /\ error = NoError
    /\ \E i \in OracleRows :
          /\ \A t \in Range(MERGE_TOOL) : result_df[i][t] = Tests_timedout
          /\ result_df[i][OracleTool] = Tests_failed

=============================================================================
